---------------------------- MODULE Spec2Model ----------------------------
(***************************************************************************)
(* A model of cellphonedb/utils/scoring_utils.py:                          *)
(*   filter_genes_per_cell_type, heteromer_geometric_expression_per_cell_  *)
(*   type and score_product (with _get_lr_scores, _add_interaction_id and  *)
(*   the multiprocessing pool that score_product drives).                  *)
(*                                                                         *)
(* Python strings are sequences of one-character strings, so that joining  *)
(* names with a separator and sorting them are the operations the code     *)
(* performs and not an abstraction of them.                                *)
(***************************************************************************)
EXTENDS Integers, Sequences, FiniteSets, TLC

VARIABLES
    \* ---- the catalog: db_utils.get_interactions_genes_complex(...)
    interactions,          \* rows [id_cp_interaction, multidata_1_id, multidata_2_id]
    genes,                 \* rows [gene_name, protein_id]
    complex_composition,   \* rows [complex_multidata_id, protein_multidata_id]
    complex_expanded,      \* rows [complex_multidata_id, name]
    \* ---- the matrix argument of the function being run
    matrix,                \* [index, columns, vals]
    \* ---- score_product
    threads,
    interactions_df,       \* rows [id_cp_interaction, partner_a, partner_b]
    cpdb_set_all_lrs,
    combinations_cell_types,
    next_task,             \* the pool's task queue: index of the next task handed out
    worker,                \* worker[w]: 0 (idle) or the task it is computing
    outbox,                \* finished tasks: task index -> result of _get_lr_scores
    results,               \* what the driver has taken from pool.imap so far
    tag_i,                 \* position of the tagging loop in results
    score_dict,
    \* ---- filter_genes_per_cell_type
    metadata,              \* barcode -> cell type (the cell_column_name column)
    min_pct_cell,          \* <<numerator, denominator>>
    todo,                  \* cell types the loop has not visited yet
    \* ---- heteromer_geometric_expression_per_cell_type
    complex_name_2_subunits,   \* rows [name, subunits], in the order of the dict
    complex_i,                 \* position of the loop over the complexes
    complex_geom_mean,         \* complex name -> values per cell type
    final_df,
    \* ---- the function's local name "matrix" (the copy it works on) and its position
    local_matrix,
    pc

catalog_vars == <<interactions, genes, complex_composition, complex_expanded>>
score_vars == <<threads, interactions_df, cpdb_set_all_lrs, combinations_cell_types,
                next_task, worker, outbox, results, tag_i, score_dict>>
filter_vars == <<metadata, min_pct_cell, todo>>
complex_vars == <<complex_name_2_subunits, complex_i, complex_geom_mean, final_df>>
other_vars == <<filter_vars, complex_vars, local_matrix>>
vars == <<catalog_vars, matrix, score_vars, filter_vars, complex_vars, local_matrix, pc>>

---------------------------------------------------------------------------
(* Python str: code points, comparison, concatenation                      *)

Ord(c) ==
    CASE c = "-" -> 45
      [] c = "A" -> 65
      [] c = "B" -> 66
      [] c = "X" -> 88
      [] c = "Y" -> 89
      [] c = "a" -> 97
      [] c = "n" -> 110
      [] c = "|" -> 124

RECURSIVE StrLeq(_, _)
StrLeq(s, t) ==
    IF s = <<>> THEN TRUE
    ELSE IF t = <<>> THEN FALSE
    ELSE IF Ord(Head(s)) < Ord(Head(t)) THEN TRUE
    ELSE IF Ord(Head(s)) > Ord(Head(t)) THEN FALSE
    ELSE StrLeq(Tail(s), Tail(t))

\* sorted([a, b])
Sorted2(a, b) == IF StrLeq(a, b) THEN <<a, b>> ELSE <<b, a>>

\* sep.join(pair)
Join(sep, pair) == pair[1] \o <<sep>> \o pair[2]

\* a + '|' + b
BarKey(a, b) == Join("|", <<a, b>>)

\* '-'.join(sorted([a, b]))
SortedKey(a, b) == Join("-", Sorted2(a, b))

\* '|'.join(sorted([cell_type_A, cell_type_B]))
CtPairKey(a, b) == Join("|", Sorted2(a, b))

Range(s) == {s[k] : k \in DOMAIN s}


---------------------------------------------------------------------------
(* Bounds of the model                                                      *)

MaxInteractions == 2    \* rows of the catalog's interaction table
MaxVal == 3             \* expression values are 0..MaxVal
MaxTypes == 3           \* cell-type columns, when their names are drawn freely
MaxThreads == 2         \* size of the worker pool

---------------------------------------------------------------------------
(* Names the inputs are drawn from                                          *)

nA == <<"A">>
nB == <<"B">>
nAhB == <<"A", "-", "B">>
nAhA == <<"A", "-", "A">>
nBbA == <<"B", "|", "A">>
nAbB == <<"A", "|", "B">>
nAbA == <<"A", "|", "A">>
nAbAhB == <<"A", "|", "A", "-", "B">>
nBhAbA == <<"B", "-", "A", "|", "A">>
tX == <<"X">>
tY == <<"Y">>
tXbY == <<"X", "|", "Y">>
tYbXbY == <<"Y", "|", "X", "|", "Y">>

\* genes and complexes the scoring catalogs name their partners from
ScoreGenes == << [gene_name |-> nA, protein_id |-> 1],
                 [gene_name |-> nB, protein_id |-> 2] >>
ScoreComplexes == << [complex_multidata_id |-> 3, name |-> nAhB],
                     [complex_multidata_id |-> 4, name |-> nAhA],
                     [complex_multidata_id |-> 5, name |-> nBbA],
                     [complex_multidata_id |-> 6, name |-> nAbAhB],
                     [complex_multidata_id |-> 7, name |-> nBhAbA] >>
\* (multidata_1_id, multidata_2_id) of the interactions a catalog may list
PartnerPool == { <<2, 1>>, <<1, 3>>, <<4, 2>>, <<1, 5>>, <<1, 6>>, <<1, 7>> }
\* row names of the scaled mean matrix
IndexPool == { <<nA, nB>>, <<nA, nAhB>>, <<nAbB, nA>>, <<nAbA, nAhB>>, <<nB, nA, nAhA>> }
CellTypePool == { tX, tY, tXbY, tYbXbY }

IdOf(k) == <<"CPI", k>>

Catalogs ==
    UNION { { [k \in 1..n |-> [id_cp_interaction |-> IdOf(k),
                               multidata_1_id |-> f[k][1],
                               multidata_2_id |-> f[k][2]]] : f \in [1..n -> PartnerPool] }
            : n \in 0..MaxInteractions }

\* expression values of an nr x nc matrix, shifted by s
ExprVals(nr, nc, s) ==
    [p \in 1..nr |-> [q \in 1..nc |-> (p + nr * (q - 1) + s) % (MaxVal + 1)]]

Matrices(indexes, columnses, shifts) ==
    { [index |-> ix, columns |-> cs, vals |-> ExprVals(Len(ix), Len(cs), s)] :
        ix \in indexes, cs \in columnses, s \in shifts }

DistinctSeqs(S, n) ==
    { f \in [1..n -> S] : \A a, b \in 1..n : a # b => f[a] # f[b] }

---------------------------------------------------------------------------
(* score_product and its helpers                                            *)

\* matrix[cell_type]: the column labelled cell_type
ColPos(m, ct) == CHOOSE q \in 1..Len(m.columns) : m.columns[q] = ct

\* lr_outer.stack().reset_index(): row-major long form of the outer product
LrOuterLong(m, A, B) ==
    LET n == Len(m.index)
    IN  [k \in 1..(n * n) |->
            LET p == ((k - 1) \div n) + 1
                q == ((k - 1) % n) + 1
            IN  << m.index[p], m.index[q],
                   m.vals[p][ColPos(m, A)] * m.vals[q][ColPos(m, B)] >>]

get_lr_scores(m, set_all_lrs, cell_type_tuple) ==
    LET A == cell_type_tuple[1]
        B == cell_type_tuple[2]
        keep(r) == BarKey(r[1], r[2]) \in set_all_lrs
    IN  [cell_type_tuple |-> cell_type_tuple,
         table |-> SelectSeq(LrOuterLong(m, A, B), keep)]

\* id2name: genes first, complexes merged over them
Id2Name(gs, cx) ==
    LET g == [i \in {gs[r].protein_id : r \in DOMAIN gs} |->
                 gs[CHOOSE r \in DOMAIN gs : gs[r].protein_id = i
                       /\ \A r2 \in DOMAIN gs : gs[r2].protein_id = i => r2 <= r].gene_name]
        c == [i \in {cx[r].complex_multidata_id : r \in DOMAIN cx} |->
                 cx[CHOOSE r \in DOMAIN cx : cx[r].complex_multidata_id = i
                       /\ \A r2 \in DOMAIN cx : cx[r2].complex_multidata_id = i => r2 <= r].name]
    IN  [i \in DOMAIN g \cup DOMAIN c |-> IF i \in DOMAIN c THEN c[i] ELSE g[i]]

\* interactions_df: the id column is a string and is never a key of id2name
InteractionsDf(ints, gs, cx) ==
    LET id2name == Id2Name(gs, cx)
        rep(v) == IF v \in DOMAIN id2name THEN id2name[v] ELSE v
    IN  [k \in DOMAIN ints |-> [id_cp_interaction |-> ints[k].id_cp_interaction,
                                partner_a |-> rep(ints[k].multidata_1_id),
                                partner_b |-> rep(ints[k].multidata_2_id)]]

MembershipSetOneWay(df) == { BarKey(df[k].partner_a, df[k].partner_b) : k \in DOMAIN df }
\* set(cpdb_list_a + cpdb_list_b)
MembershipSet(df) ==
    { BarKey(df[k].partner_a, df[k].partner_b) : k \in DOMAIN df }
      \cup { BarKey(df[k].partner_b, df[k].partner_a) : k \in DOMAIN df }

\* list(combinations_with_replacement(matrix.columns, 2))
RECURSIVE Combinations(_, _)
Combinations(cols, from) ==
    IF from > Len(cols) THEN <<>>
    ELSE [k \in 1..(Len(cols) - from + 1) |-> <<cols[from], cols[from + k - 1]>>]
           \o Combinations(cols, from + 1)

\* dict(zip(cpdb_sorted, interactions_df['id_cp_interaction'])): the last row wins
DictCpdbId(df) ==
    LET key(k) == SortedKey(df[k].partner_a, df[k].partner_b)
    IN  [s \in {key(k) : k \in DOMAIN df} |->
            df[CHOOSE k \in DOMAIN df : key(k) = s
                  /\ \A k2 \in DOMAIN df : key(k2) = s => k2 <= k].id_cp_interaction]

\* dict_cpdb_id[i] raises KeyError for some row
LookupMiss(df, table) ==
    \E r \in DOMAIN table : SortedKey(table[r][1], table[r][2]) \notin DOMAIN DictCpdbId(df)

add_interaction_id(df, table, cell_type_tuple) ==
    LET d == DictCpdbId(df)
    IN  [key |-> CtPairKey(cell_type_tuple[1], cell_type_tuple[2]),
         table |-> [cell_types |-> cell_type_tuple,
                    rows |-> [r \in DOMAIN table |->
                                << table[r][1], table[r][2], table[r][3],
                                   d[SortedKey(table[r][1], table[r][2])] >>]]]

ImapUnordered(out, res) == { t \in DOMAIN out : out[t] \notin Range(res) }
\* pool.imap yields the results in the order of the tasks
ImapNext(out, res) == { t \in DOMAIN out : t = Len(res) + 1 }

Put(d, k, v) == [x \in DOMAIN d \cup {k} |-> IF x = k THEN v ELSE d[x]]
Empty == [x \in {} |-> 0]

\* the variables of the other functions, which a call of this one never touches
IdleFilter == metadata = Empty /\ min_pct_cell = <<0, 1>> /\ todo = {}
IdleComplex ==
    /\ complex_name_2_subunits = <<>> /\ complex_i = 1
    /\ complex_geom_mean = Empty /\ final_df = <<>>
IdleScore ==
    /\ threads = 1 /\ interactions_df = <<>> /\ cpdb_set_all_lrs = {}
    /\ combinations_cell_types = <<>> /\ next_task = 1 /\ worker = <<>>
    /\ outbox = Empty /\ results = <<>> /\ tag_i = 1 /\ score_dict = Empty


\* score_product is called with a scaled mean matrix, a catalog and a pool size:
\* either two plainly named cell types in either column order, any catalog and
\* any row names, or freely named cell types with one interaction A-B.
InitScore ==
    /\ genes = ScoreGenes
    /\ complex_expanded = ScoreComplexes
    /\ complex_composition = <<>>
    /\ \/ /\ interactions \in Catalogs
          /\ matrix \in Matrices(IndexPool, {<<tX, tY>>, <<tY, tX>>}, {0, 1})
          /\ threads = 1
       \/ /\ interactions = << [id_cp_interaction |-> IdOf(1),
                                multidata_1_id |-> 1, multidata_2_id |-> 2] >>
          /\ matrix \in Matrices({<<nA, nB>>},
                                 UNION {DistinctSeqs(CellTypePool, n) : n \in 1..MaxTypes},
                                 {0})
          /\ threads \in 1..MaxThreads
    /\ interactions_df = <<>>
    /\ cpdb_set_all_lrs = {}
    /\ combinations_cell_types = <<>>
    /\ next_task = 1
    /\ worker = <<>>
    /\ outbox = Empty
    /\ results = <<>>
    /\ tag_i = 1
    /\ score_dict = Empty
    /\ IdleFilter
    /\ IdleComplex
    /\ local_matrix = matrix
    /\ pc = "start"

\* lines 245-268: the catalog's names, the membership set, the tasks, the pool
Setup ==
    /\ pc = "start"
    /\ interactions_df' = InteractionsDf(interactions, genes, complex_expanded)
    /\ cpdb_set_all_lrs' = MembershipSet(interactions_df')
    /\ combinations_cell_types' = Combinations(matrix.columns, 1)
    /\ worker' = [w \in 1..threads |-> 0]
    /\ pc' = "pool"
    /\ UNCHANGED <<catalog_vars, matrix, threads, next_task, outbox, results, tag_i,
                   score_dict, other_vars>>

\* an idle worker takes the next task of the queue
WorkerTake(w) ==
    /\ pc = "pool"
    /\ worker[w] = 0
    /\ next_task <= Len(combinations_cell_types)
    /\ worker' = [worker EXCEPT ![w] = next_task]
    /\ next_task' = next_task + 1
    /\ UNCHANGED <<catalog_vars, matrix, threads, interactions_df, cpdb_set_all_lrs,
                   combinations_cell_types, outbox, results, tag_i, score_dict, pc,
                   other_vars>>

\* the worker returns _get_lr_scores(matrix, cpdb_set_all_lrs, task)
WorkerFinish(w) ==
    /\ pc = "pool"
    /\ worker[w] # 0
    /\ outbox' = Put(outbox, worker[w],
                     get_lr_scores(matrix, cpdb_set_all_lrs,
                                   combinations_cell_types[worker[w]]))
    /\ worker' = [worker EXCEPT ![w] = 0]
    /\ UNCHANGED <<catalog_vars, matrix, threads, interactions_df, cpdb_set_all_lrs,
                   combinations_cell_types, next_task, results, tag_i, score_dict, pc,
                   other_vars>>

\* one turn of "for tp in pool.imap(...)": results.append(tp)
ImapYield ==
    /\ pc = "pool"
    /\ \E t \in ImapNext(outbox, results) :
          results' = Append(results, outbox[t])
    /\ UNCHANGED <<catalog_vars, matrix, threads, interactions_df, cpdb_set_all_lrs,
                   combinations_cell_types, next_task, worker, outbox, tag_i,
                   score_dict, pc, other_vars>>

\* the iterator is exhausted and the with-block closes the pool
PoolExit ==
    /\ pc = "pool"
    /\ Len(results) = Len(combinations_cell_types)
    /\ pc' = "tag"
    /\ UNCHANGED <<catalog_vars, matrix, score_vars, other_vars>>

\* one turn of the tagging loop; a KeyError in _add_interaction_id ends the call
AddInteractionId ==
    /\ pc = "tag"
    /\ tag_i <= Len(results)
    /\ LET r == results[tag_i]
       IN  IF LookupMiss(interactions_df, r.table)
           THEN /\ pc' = "KeyError"
                /\ UNCHANGED <<tag_i, score_dict>>
           ELSE LET tp == add_interaction_id(interactions_df, r.table, r.cell_type_tuple)
                IN  /\ score_dict' = Put(score_dict, tp.key, tp.table)
                    /\ tag_i' = tag_i + 1
                    /\ pc' = pc
    /\ UNCHANGED <<catalog_vars, matrix, threads, interactions_df, cpdb_set_all_lrs,
                   combinations_cell_types, next_task, worker, outbox, results,
                   other_vars>>

Return ==
    /\ pc = "tag"
    /\ tag_i > Len(results)
    /\ pc' = "done"
    /\ UNCHANGED <<catalog_vars, matrix, score_vars, other_vars>>

NextScore ==
    \/ Setup
    \/ \E w \in DOMAIN worker : WorkerTake(w)
    \/ \E w \in DOMAIN worker : WorkerFinish(w)
    \/ ImapYield
    \/ PoolExit
    \/ AddInteractionId
    \/ Return

SpecScore == InitScore /\ [][NextScore]_vars

---------------------------------------------------------------------------
(* filter_genes_per_cell_type                                               *)

MaxExpr == 2            \* counts of the normalized matrix are 0..MaxExpr

Barcodes == <<"c1", "c2", "c3">>
\* min_pct_cell, a fraction of the cells of a type
PctPool == { <<0, 1>>, <<1, 3>>, <<1, 2>>, <<2, 3>>, <<1, 1>> }

\* list(metadata.index[metadata[cell_column_name] == cell_type])
CellBarcode(md, cell_type) == { c \in DOMAIN md : md[c] = cell_type }

\* (matrix[cell_barcode] != 0).sum(axis=1), for the gene of row p
ExprCount(m, p, cell_barcode) ==
    Cardinality({ c \in cell_barcode : m.vals[p][ColPos(m, c)] # 0 })

GeneLowlyExprLeq(m, cell_barcode, pct) ==
    { p \in DOMAIN m.index :
        ExprCount(m, p, cell_barcode) * pct[2] <= pct[1] * Cardinality(cell_barcode) }
\* gene_expr_pct.index[gene_expr_pct < min_pct_cell], as row positions:
\* count / len < num / den, compared without rounding
GeneLowlyExpr(m, cell_barcode, pct) ==
    { p \in DOMAIN m.index :
        ExprCount(m, p, cell_barcode) * pct[2] < pct[1] * Cardinality(cell_barcode) }

\* matrix.loc[gene_lowly_expr, cell_barcode] = 0
ZeroOut(m, rows, cell_barcode) ==
    [m EXCEPT !.vals =
        [p \in DOMAIN m.vals |-> [q \in DOMAIN m.vals[p] |->
            IF p \in rows /\ m.columns[q] \in cell_barcode THEN 0 ELSE m.vals[p][q]]]]

InitFilter ==
    /\ matrix \in { [index |-> <<nA, nB>>, columns |-> Barcodes, vals |-> v] :
                      v \in [1..2 -> [1..Len(Barcodes) -> 0..MaxExpr]] }
    /\ metadata \in [Range(Barcodes) -> {tX, tY}] \cup [{"c1", "c2"} -> {tX, tY}]
    /\ min_pct_cell \in PctPool
    /\ todo = {}
    /\ local_matrix = <<>>
    /\ interactions = <<>> /\ genes = <<>>
    /\ complex_composition = <<>> /\ complex_expanded = <<>>
    /\ IdleScore
    /\ IdleComplex
    /\ pc = "filter_start"

\* lines 37-40: the copy, and the set of cell types of the metadata
FilterStart ==
    /\ pc = "filter_start"
    /\ local_matrix' = matrix
    /\ todo' = { metadata[c] : c \in DOMAIN metadata }
    /\ pc' = "filter_loop"
    /\ UNCHANGED <<catalog_vars, matrix, score_vars, metadata, min_pct_cell, complex_vars>>

\* one turn of the loop over the set of cell types, in the set's order
FilterCellType ==
    /\ pc = "filter_loop"
    /\ \E cell_type \in todo :
          LET cell_barcode == CellBarcode(metadata, cell_type)
              gene_lowly_expr == GeneLowlyExpr(local_matrix, cell_barcode, min_pct_cell)
          IN  /\ local_matrix' = ZeroOut(local_matrix, gene_lowly_expr, cell_barcode)
              /\ todo' = todo \ {cell_type}
    /\ UNCHANGED <<catalog_vars, matrix, score_vars, metadata, min_pct_cell, complex_vars, pc>>

FilterReturn ==
    /\ pc = "filter_loop"
    /\ todo = {}
    /\ pc' = "filter_done"
    /\ UNCHANGED <<catalog_vars, matrix, score_vars, filter_vars, complex_vars, local_matrix>>

NextFilter == FilterStart \/ FilterCellType \/ FilterReturn

SpecFilter == InitFilter /\ [][NextFilter]_vars

\* C9: the returned matrix has the shape of the input and, for every gene g and
\* every cell c of a cell type t, holds 0 where fewer than min_pct_cell of t's
\* cells express g in the input, and the input's value otherwise; cells of
\* other types (and cells without a type) keep the input's values.
C9_FilterPerCellType ==
    pc = "filter_done" =>
        /\ local_matrix.index = matrix.index
        /\ local_matrix.columns = matrix.columns
        /\ DOMAIN local_matrix.vals = DOMAIN matrix.vals
        /\ \A p \in DOMAIN matrix.vals :
              /\ DOMAIN local_matrix.vals[p] = DOMAIN matrix.vals[p]
              /\ \A q \in DOMAIN matrix.vals[p] :
                    LET c == matrix.columns[q]
                    IN  IF c \in DOMAIN metadata
                        THEN LET cells == { d \in DOMAIN metadata : metadata[d] = metadata[c] }
                                 n == Cardinality({ d \in cells :
                                          matrix.vals[p][ColPos(matrix, d)] # 0 })
                             IN  local_matrix.vals[p][q] =
                                    IF n * min_pct_cell[2] < min_pct_cell[1] * Cardinality(cells)
                                    THEN 0 ELSE matrix.vals[p][q]
                        ELSE local_matrix.vals[p][q] = matrix.vals[p][q]

\* a gene was zeroed in one cell type and kept, non-zero, in the other
C9_Witness ==
    /\ pc = "filter_done"
    /\ \E p \in DOMAIN matrix.vals : \E q1, q2 \in DOMAIN matrix.vals[p] :
          /\ matrix.columns[q1] \in DOMAIN metadata
          /\ matrix.columns[q2] \in DOMAIN metadata
          /\ metadata[matrix.columns[q1]] # metadata[matrix.columns[q2]]
          /\ matrix.vals[p][q1] # 0 /\ local_matrix.vals[p][q1] = 0
          /\ matrix.vals[p][q2] # 0 /\ local_matrix.vals[p][q2] = matrix.vals[p][q2]

---------------------------------------------------------------------------
(* heteromer_geometric_expression_per_cell_type                             *)

\* a missing gene name: str(i) is 'nan'
NaN == <<"n", "a", "n">>

RECURSIVE Ascending(_)
Ascending(P) ==
    IF P = {} THEN <<>>
    ELSE LET x == CHOOSE x \in P : \A y \in P : x <= y
         IN  <<x>> \o Ascending(P \ {x})

RECURSIVE SortNames(_)
SortNames(S) ==
    IF S = {} THEN <<>>
    ELSE LET x == CHOOSE x \in S : \A y \in S : StrLeq(x, y)
         IN  <<x>> \o SortNames(S \ {x})

RECURSIVE Flatten(_)
Flatten(ss) == IF ss = <<>> THEN <<>> ELSE Head(ss) \o Flatten(Tail(ss))

\* matrix.loc[idx] for a boolean list idx, given as the set of kept positions
KeepRows(m, P) ==
    LET ps == Ascending(P)
    IN  [m EXCEPT !.index = [k \in DOMAIN ps |-> m.index[ps[k]]],
                  !.vals = [k \in DOMAIN ps |-> m.vals[ps[k]]]]

\* lines 123-124: keep only the genes in CellphoneDB
RestrictToCatalog(m, gs) ==
    KeepRows(m, { p \in DOMAIN m.index : m.index[p] \in {gs[r].gene_name : r \in DOMAIN gs} })

\* pd.merge(complex_composition, complex_expanded[[id, name]], on=id), inner
MergeNames(cc, ce) ==
    Flatten([i \in DOMAIN cc |->
        LET hit == SelectSeq(ce, LAMBDA r : r.complex_multidata_id = cc[i].complex_multidata_id)
        IN  [j \in DOMAIN hit |-> [complex_multidata_id |-> cc[i].complex_multidata_id,
                                   protein_multidata_id |-> cc[i].protein_multidata_id,
                                   name |-> hit[j].name]]])

\* pd.merge(..., genes[[gene_name, protein_id]], left_on=protein_multidata_id,
\*          right_on=protein_id), inner
MergeGenes(cn, gs) ==
    Flatten([i \in DOMAIN cn |->
        LET hit == SelectSeq(gs, LAMBDA r : r.protein_id = cn[i].protein_multidata_id)
        IN  [j \in DOMAIN hit |-> [name |-> cn[i].name, gene_name |-> hit[j].gene_name]]])

\* groupby('name')['gene_name'].apply(list), as the dict name -> subunits
ComplexName2Subunits(cc, ce, gs) ==
    LET merged == MergeGenes(MergeNames(cc, ce), gs)
        names == SortNames({merged[r].name : r \in DOMAIN merged})
        pick(n) == SelectSeq(merged, LAMBDA r : r.name = n)
    IN  [k \in DOMAIN names |->
            [name |-> names[k],
             subunits |-> [j \in DOMAIN pick(names[k]) |-> pick(names[k])[j].gene_name]]]

\* [i for i in set(subunits) if str(i) != 'nan']
SubunitsList(subunits) == { g \in Range(subunits) : g # NaN }

CheckSubunitAny(m, subunits_list) == \E sub \in subunits_list : sub \in Range(m.index)
\* all([sub in matrix.index for sub in subunits_list])
CheckSubunit(m, subunits_list) == \A sub \in subunits_list : sub \in Range(m.index)

RECURSIVE Product(_)
Product(x) == IF x = <<>> THEN 1 ELSE Head(x) * Product(Tail(x))

\* np.power(np.prod(x), 1 / len(x)): the len(x)-th root of the product, kept exact
\* as the pair (product, len(x)); len(x) = 0 is the division by zero of line 99
geometric_mean(x) == [of |-> Product(x), root |-> Len(x)]
\* a value of the mean matrix, in the same form
Plain(v) == [of |-> v, root |-> 1]

\* matrix.loc[subunits_list,].apply(_geometric_mean, axis=0)
GeomMeanRow(m, subunits_list) ==
    LET ps == Ascending({ p \in DOMAIN m.index : m.index[p] \in subunits_list })
    IN  [q \in DOMAIN m.columns |-> geometric_mean([k \in DOMAIN ps |-> m.vals[ps[k]][q]])]

KeepCollisions(m, cgm) == m
\* lines 161-162: drop the genes that have the name of a produced complex
PruneCollisions(m, cgm) ==
    KeepRows(m, { p \in DOMAIN m.index : m.index[p] \notin DOMAIN cgm })

\* pd.concat([matrix, complex_geom_mean_df])
Concat(m, cgm) ==
    LET cs == SortNames(DOMAIN cgm)
    IN  [p \in DOMAIN m.index |->
            [name |-> m.index[p], vals |-> [q \in DOMAIN m.columns |-> Plain(m.vals[p][q])]]]
        \o [k \in DOMAIN cs |-> [name |-> cs[k], vals |-> cgm[cs[k]]]]

\* the genes table: each protein has a gene name, a missing one, or no row
GenesTables ==
    { Flatten([p \in 1..2 |-> IF f[p] = <<>> THEN <<>>
                              ELSE << [gene_name |-> f[p], protein_id |-> p] >>]) :
        f \in [1..2 -> {nA, nB, NaN, <<>>}] }
CompositionTables ==
    { LET sel == SelectSeq(<< <<10, 1>>, <<10, 2>>, <<11, 1>>, <<11, 2>> >>, LAMBDA e : e \in S)
      IN  [k \in DOMAIN sel |-> [complex_multidata_id |-> sel[k][1],
                                 protein_multidata_id |-> sel[k][2]]] :
        S \in SUBSET ({10, 11} \X {1, 2}) }
ComplexTables ==
    { << [complex_multidata_id |-> 10, name |-> nAhB] >>,
      << [complex_multidata_id |-> 10, name |-> nAhB],
         [complex_multidata_id |-> 11, name |-> nA] >>,
      << [complex_multidata_id |-> 10, name |-> nA],
         [complex_multidata_id |-> 11, name |-> nB] >> }

InitComplex ==
    /\ matrix \in Matrices({<<nA>>, <<nA, nB>>, <<nA, nAhA, nB>>}, {<<tX, tY>>}, {0, 1})
    /\ genes \in GenesTables
    /\ complex_composition \in CompositionTables
    /\ complex_expanded \in ComplexTables
    /\ interactions = <<>>
    /\ IdleScore
    /\ IdleFilter
    /\ IdleComplex
    /\ local_matrix = <<>>
    /\ pc = "complex_start"

\* lines 116-125: the copy, restricted to the genes of the catalog
ComplexStart ==
    /\ pc = "complex_start"
    /\ local_matrix' = RestrictToCatalog(matrix, genes)
    /\ pc' = "complex_map"
    /\ UNCHANGED <<catalog_vars, matrix, score_vars, filter_vars, complex_vars>>

\* lines 127-139: complex name -> subunits
ComplexMap ==
    /\ pc = "complex_map"
    /\ complex_name_2_subunits' =
          ComplexName2Subunits(complex_composition, complex_expanded, genes)
    /\ complex_geom_mean' = Empty
    /\ complex_i' = 1
    /\ pc' = "complex_loop"
    /\ UNCHANGED <<catalog_vars, matrix, score_vars, filter_vars, final_df, local_matrix>>

\* one turn of the loop over the complexes (lines 140-153)
ComplexStep ==
    /\ pc = "complex_loop"
    /\ complex_i <= Len(complex_name_2_subunits)
    /\ LET complex_id == complex_name_2_subunits[complex_i].name
           subunits_list == SubunitsList(complex_name_2_subunits[complex_i].subunits)
       IN  complex_geom_mean' =
               IF CheckSubunit(local_matrix, subunits_list)
               THEN Put(complex_geom_mean, complex_id, GeomMeanRow(local_matrix, subunits_list))
               ELSE complex_geom_mean
    /\ complex_i' = complex_i + 1
    /\ UNCHANGED <<catalog_vars, matrix, score_vars, filter_vars, complex_name_2_subunits,
                   final_df, local_matrix, pc>>

\* lines 155-166.  A complex computed from no rows at all holds an empty frame
\* where the others hold a row: building the table of the complexes then either
\* raises, or gives that complex a row of values that are no numbers.
ComplexFinalize ==
    /\ pc = "complex_loop"
    /\ complex_i > Len(complex_name_2_subunits)
    /\ \/ /\ final_df' = Concat(PruneCollisions(local_matrix, complex_geom_mean),
                                complex_geom_mean)
          /\ pc' = "complex_done"
       \/ /\ \E c \in DOMAIN complex_geom_mean :
                \E q \in DOMAIN complex_geom_mean[c] : complex_geom_mean[c][q].root = 0
          /\ final_df' = final_df
          /\ pc' = "complex_error"
    /\ UNCHANGED <<catalog_vars, matrix, score_vars, filter_vars, complex_name_2_subunits,
                   complex_i, complex_geom_mean, local_matrix>>

NextComplex == ComplexStart \/ ComplexMap \/ ComplexStep \/ ComplexFinalize

SpecComplex == InitComplex /\ [][NextComplex]_vars

---------------------------------------------------------------------------
(* Properties of heteromer_geometric_expression_per_cell_type               *)

\* the proteins the complex composition lists for the complexes named c
ListedProteins(c) ==
    { complex_composition[i].protein_multidata_id : i \in
        { i \in DOMAIN complex_composition : \E j \in DOMAIN complex_expanded :
            /\ complex_expanded[j].name = c
            /\ complex_expanded[j].complex_multidata_id
                 = complex_composition[i].complex_multidata_id } }
\* the gene names the genes table gives a protein
GeneNamesOf(prot) ==
    { genes[r].gene_name : r \in { r \in DOMAIN genes : genes[r].protein_id = prot } }
\* the subunits the code works with: the listed proteins' gene names, without nan
NamedSubunits(c) == (UNION { GeneNamesOf(prot) : prot \in ListedProteins(c) }) \ {NaN}
RestrictedNames == Range(matrix.index) \cap { genes[r].gene_name : r \in DOMAIN genes }
GeneVals(n) == matrix.vals[CHOOSE p \in DOMAIN matrix.index : matrix.index[p] = n]
\* the geometric mean of the rows S of the input, per cell type
MeanOver(S) ==
    LET ps == Ascending({ p \in DOMAIN matrix.index : matrix.index[p] \in S })
    IN  [q \in DOMAIN matrix.columns |->
            [of |-> Product([k \in DOMAIN ps |-> matrix.vals[ps[k]][q]]), root |-> Len(ps)]]
RowsNamed(n) == { r \in DOMAIN final_df : final_df[r].name = n }

\* C7 as stated: a complex row is computed only if every subunit the complex
\* composition lists is a row of the catalog-restricted matrix; a complex with
\* a listed subunit missing is absent from the output.
C7_AllListedSubunits ==
    pc = "complex_done" =>
        \A c \in DOMAIN complex_geom_mean :
            \A prot \in ListedProteins(c) :
                \E g \in GeneNamesOf(prot) : g \in RestrictedNames

\* C7, amended: a complex row is computed only if every named subunit (the gene
\* names the genes table gives the listed proteins, nan dropped) is a row of the
\* catalog-restricted matrix; it is then the geometric mean over exactly these
\* rows, and a complex with a named subunit missing has no row in the output.
C7_AllNamedSubunits ==
    /\ \A c \in DOMAIN complex_geom_mean :
          /\ NamedSubunits(c) \subseteq RestrictedNames
          /\ complex_geom_mean[c] = MeanOver(NamedSubunits(c))
    /\ pc = "complex_done" =>
          \A k \in DOMAIN complex_name_2_subunits :
              LET c == complex_name_2_subunits[k].name
              IN  ~(NamedSubunits(c) \subseteq RestrictedNames) =>
                      /\ c \notin DOMAIN complex_geom_mean
                      /\ \A r \in RowsNamed(c) :
                            /\ c \in RestrictedNames
                            /\ final_df[r].vals
                                 = [q \in DOMAIN matrix.columns |-> Plain(GeneVals(c)[q])]

\* one complex was computed and has its row while another, with one named
\* subunit present and one missing, was left out
C7_Witness ==
    /\ pc = "complex_done"
    /\ \E c \in DOMAIN complex_geom_mean : Cardinality(NamedSubunits(c)) >= 1
         /\ \E r \in RowsNamed(c) : final_df[r].vals = complex_geom_mean[c]
    /\ \E k \in DOMAIN complex_name_2_subunits :
          LET c == complex_name_2_subunits[k].name
          IN  /\ c \notin DOMAIN complex_geom_mean
              /\ NamedSubunits(c) \cap RestrictedNames # {}
              /\ NamedSubunits(c) \ RestrictedNames # {}

UniqueRowKeys == \A r1, r2 \in DOMAIN final_df : final_df[r1].name = final_df[r2].name => r1 = r2

\* C8 as stated: the returned matrix has unique row keys, a name that is both a
\* gene row and a produced complex holds the complex's values, and every gene
\* row of the given matrix that collides with no produced complex is kept
\* unchanged.
C8_EveryGeneRowKept ==
    pc = "complex_done" =>
        /\ UniqueRowKeys
        /\ \A n \in Range(matrix.index) \cap DOMAIN complex_geom_mean :
              \A r \in RowsNamed(n) : final_df[r].vals = complex_geom_mean[n]
        /\ \A n \in Range(matrix.index) \ DOMAIN complex_geom_mean :
              \E r \in RowsNamed(n) :
                  final_df[r].vals = [q \in DOMAIN matrix.columns |-> Plain(GeneVals(n)[q])]

\* C8, amended: the same, for the gene rows whose name is in the catalog's
\* gene table (the others are dropped); every produced complex has its row.
C8_UniqueRowKeys ==
    pc = "complex_done" =>
        /\ UniqueRowKeys
        /\ \A n \in DOMAIN complex_geom_mean :
              /\ RowsNamed(n) # {}
              /\ \A r \in RowsNamed(n) : final_df[r].vals = complex_geom_mean[n]
        /\ \A n \in RestrictedNames \ DOMAIN complex_geom_mean :
              \E r \in RowsNamed(n) :
                  final_df[r].vals = [q \in DOMAIN matrix.columns |-> Plain(GeneVals(n)[q])]
        /\ \A r \in DOMAIN final_df :
              final_df[r].name \in RestrictedNames \cup DOMAIN complex_geom_mean

\* a gene row gave way to the complex of its name, computed from two subunits,
\* and another gene row was kept
C8_Witness ==
    /\ pc = "complex_done"
    /\ \E n \in RestrictedNames \cap DOMAIN complex_geom_mean :
          /\ Cardinality(NamedSubunits(n)) = 2
          /\ \E r \in RowsNamed(n) : final_df[r].vals = complex_geom_mean[n]
    /\ \E n \in RestrictedNames \ DOMAIN complex_geom_mean : RowsNamed(n) # {}

\* C10: a complex with no valid subunit left after deduplication and
\* nan-removal contributes no row, and the run goes on normally.
C10_ZeroSubunitsExcluded ==
    /\ pc # "complex_error"
    /\ \A c \in DOMAIN complex_geom_mean : NamedSubunits(c) # {}

---------------------------------------------------------------------------
(* Properties of score_product                                              *)

Names == Range(matrix.index)
Expr(name, ct) ==
    matrix.vals[CHOOSE p \in DOMAIN matrix.index : matrix.index[p] = name][ColPos(matrix, ct)]
\* the string i|j is one of the two orientations of a catalog interaction
InCatalog(i, j) ==
    \E k \in DOMAIN interactions_df :
        \/ BarKey(i, j) = BarKey(interactions_df[k].partner_a, interactions_df[k].partner_b)
        \/ BarKey(i, j) = BarKey(interactions_df[k].partner_b, interactions_df[k].partner_a)

\* C1: the table a task (typeA, typeB) returns holds a row (i, j, score) exactly
\* for the row names i, j whose string i|j is an orientation of a catalog
\* interaction, its score is expr(i, typeA) * expr(j, typeB), and no ordered
\* pair (i, j) has two rows.
C1_OuterProductFilter ==
    \A t \in DOMAIN outbox :
        LET A == combinations_cell_types[t][1]
            B == combinations_cell_types[t][2]
            tb == outbox[t].table
        IN  /\ outbox[t].cell_type_tuple = <<A, B>>
            /\ \A i, j \in Names :
                  (\E r \in DOMAIN tb : tb[r][1] = i /\ tb[r][2] = j) <=> InCatalog(i, j)
            /\ \A r \in DOMAIN tb :
                  /\ tb[r][1] \in Names /\ tb[r][2] \in Names
                  /\ InCatalog(tb[r][1], tb[r][2])
                  /\ tb[r][3] = Expr(tb[r][1], A) * Expr(tb[r][2], B)
            /\ \A r1, r2 \in DOMAIN tb :
                  (tb[r1][1] = tb[r2][1] /\ tb[r1][2] = tb[r2][2]) => r1 = r2

\* a task of two different cell types has kept some name pairs and dropped others
C1_Witness ==
    \E t \in DOMAIN outbox :
        /\ combinations_cell_types[t][1] # combinations_cell_types[t][2]
        /\ Len(outbox[t].table) >= 2
        /\ Len(outbox[t].table) < Len(matrix.index) * Len(matrix.index)
        /\ \E r \in DOMAIN outbox[t].table : outbox[t].table[r][3] > 0

\* C2: the returned mapping has exactly the keys '|'.join(sorted([a, b])) of
\* the cell-type pairs, one entry per unordered pair: C(k,2)+k entries.
C2_OneTablePerPair ==
    pc = "done" =>
        LET k == Len(matrix.columns)
        IN  /\ DOMAIN score_dict =
                  { CtPairKey(a, b) : a \in Range(matrix.columns), b \in Range(matrix.columns) }
            /\ Cardinality(DOMAIN score_dict) = (k * (k - 1)) \div 2 + k

\* C3: every row of every score table carries the id of a catalog interaction
\* whose two partner names are exactly the row's two names.
C3_MatchingInteractionId ==
    \A key \in DOMAIN score_dict :
        \A r \in DOMAIN score_dict[key].rows :
            LET row == score_dict[key].rows[r]
            IN  \E k \in DOMAIN interactions_df :
                    /\ interactions_df[k].id_cp_interaction = row[4]
                    /\ {interactions_df[k].partner_a, interactions_df[k].partner_b}
                         = {row[1], row[2]}

\* C4: every row that passed the membership filter has its sorted-pair key in
\* the id lookup: the tagging step never hits a lookup miss.
C4_NoLookupMiss ==
    /\ pc # "KeyError"
    /\ \A t \in DOMAIN outbox :
          \A r \in DOMAIN outbox[t].table :
              \E k \in DOMAIN interactions_df :
                  SortedKey(outbox[t].table[r][1], outbox[t].table[r][2])
                    = SortedKey(interactions_df[k].partner_a, interactions_df[k].partner_b)

\* what one worker computing the tasks in the order of submission returns
SeqDf == InteractionsDf(interactions, genes, complex_expanded)
SeqCombos == Combinations(matrix.columns, 1)
SeqResult(t) == get_lr_scores(matrix, MembershipSet(SeqDf), SeqCombos[t])
RECURSIVE SeqScoreDict(_)
SeqScoreDict(n) ==
    IF n = 0 THEN Empty
    ELSE LET tp == add_interaction_id(SeqDf, SeqResult(n).table, SeqCombos[n])
         IN  Put(SeqScoreDict(n - 1), tp.key, tp.table)

\* C5: whatever the interleaving of the workers and the order in which the
\* tasks complete, score_product returns the mapping the sequential run
\* returns (or fails as it fails), and the workers leave the matrix's
\* membership set as it was built.
C5_OrderIndependence ==
    /\ pc = "done" => score_dict = SeqScoreDict(Len(SeqCombos))
    /\ pc = "KeyError" =>
          /\ LookupMiss(SeqDf, SeqResult(tag_i).table)
          /\ \A t \in 1..(tag_i - 1) : ~LookupMiss(SeqDf, SeqResult(t).table)
          /\ score_dict = SeqScoreDict(tag_i - 1)
    /\ pc \in {"pool", "tag", "done", "KeyError"} =>
          cpdb_set_all_lrs = MembershipSet(SeqDf)

\* a pool of several workers has returned a mapping in which two tasks met on one key
C5_Witness ==
    /\ pc = "done"
    /\ threads >= 2
    /\ Len(combinations_cell_types) >= 3
    /\ Cardinality(DOMAIN score_dict) < Len(combinations_cell_types)

\* the records of a score table: name taken from each cell type, score, id
Records(tb) ==
    { [from |-> [c \in Range(tb.cell_types) |->
                    IF c = tb.cell_types[1] THEN tb.rows[r][1] ELSE tb.rows[r][2]],
       score |-> tb.rows[r][3],
       id |-> tb.rows[r][4]] : r \in DOMAIN tb.rows }

\* C6: for two cell types a # b, the table stored under '|'.join(sorted([a, b]))
\* describes the same records as the table of the task enumerated the other
\* way round, (b, a).
C6_PairSymmetry ==
    pc = "done" =>
        \A t \in DOMAIN combinations_cell_types :
            LET a == combinations_cell_types[t][1]
                b == combinations_cell_types[t][2]
                swapped == get_lr_scores(matrix, cpdb_set_all_lrs, <<b, a>>)
            IN  a # b =>
                  /\ CtPairKey(a, b) \in DOMAIN score_dict
                  /\ CtPairKey(b, a) = CtPairKey(a, b)
                  /\ ~LookupMiss(interactions_df, swapped.table)
                  /\ Records(score_dict[CtPairKey(a, b)])
                       = Records(add_interaction_id(interactions_df, swapped.table,
                                                    <<b, a>>).table)

=============================================================================
